---- MODULE Spec2Model ----
(***************************************************************************)
(* cbits/stubs.h of the CUDA bindings, read the way a C preprocessor and   *)
(* a declaration collector (c2hs, the compiler) read it: one directive or  *)
(* declaration at a time, with a conditional-inclusion stack, a macro      *)
(* table and the list of function declarations seen so far.                *)
(***************************************************************************)
EXTENDS Integers, Sequences, FiniteSets, TLC

(* ---------------------------------------------------------------------- *)
(* Bounds and program constants                                           *)
(* ---------------------------------------------------------------------- *)

\* how many times one translation unit includes stubs.h
MaxIncludes == 2

\* the three CUDA_VERSION thresholds of the header
T3020 == 3020
T4000 == 4000
T6050 == 6050

Thresholds == {T3020, T4000, T6050}

\* CUDA_VERSION values of the SDK releases the header is built against
SdkVersions == {2030, 3000, 3010, 3020, 4000, 4010, 5000, 6000, 6050, 7000}

\* compilers: MinGW gcc on Windows, MSVC on Windows, gcc elsewhere
Platforms == {"mingw", "msvc", "gnu"}

(* ---------------------------------------------------------------------- *)
(* The lines of the header                                                *)
(* ---------------------------------------------------------------------- *)

Line(op, name, val, n, ret, cc, params, line) ==
    [op |-> op, name |-> name, val |-> val, n |-> n, ret |-> ret, cc |-> cc,
     params |-> params, line |-> line]

Ifndef(name, line)       == Line("ifndef", name, "", 0, "", "", <<>>, line)
Ifdef(name, line)        == Line("ifdef", name, "", 0, "", "", <<>>, line)
IfGe(t, line)            == Line("if_ge", "CUDA_VERSION", "", t, "", "", <<>>, line)
Endif(line)              == Line("endif", "", "", 0, "", "", <<>>, line)
Def(name, val, line)     == Line("define", name, val, 0, "", "", <<>>, line)
U(name, line)            == Line("undef", name, "", 0, "", "", <<>>, line)
Inc(name, line)          == Line("include", name, "", 0, "", "", <<>>, line)
ExternOpen(line)         == Line("extern_open", "", "", 0, "", "", <<>>, line)
ExternClose(line)        == Line("extern_close", "", "", 0, "", "", <<>>, line)
D(ret, cc, name, params, line) == Line("decl", name, "", 0, ret, cc, params, line)

\* mutation: the MinGW fix-up comes after the CUDA headers
PrologueLateFixup ==
    << Ifndef("C_STUBS_H", 5),
       Def("C_STUBS_H", "", 6),
       Inc("cuda.h", 14),
       Inc("cudaProfiler.h", 15),
       Inc("cuda_runtime_api.h", 16),
       Ifdef("__MINGW32__", 8),
       Inc("host_defines.h", 9),
       U("CUDARTAPI", 10),
       Def("CUDARTAPI", "__stdcall", 11),
       Endif(12),
       Ifdef("__cplusplus", 18),
       ExternOpen(19),
       Endif(20) >>

\* mutation: the include guard is tested but never defined
PrologueNoGuardDefine ==
    << Ifndef("C_STUBS_H", 5),
       Ifdef("__MINGW32__", 8),
       Inc("host_defines.h", 9),
       U("CUDARTAPI", 10),
       Def("CUDARTAPI", "__stdcall", 11),
       Endif(12),
       Inc("cuda.h", 14),
       Inc("cudaProfiler.h", 15),
       Inc("cuda_runtime_api.h", 16),
       Ifdef("__cplusplus", 18),
       ExternOpen(19),
       Endif(20) >>

\* lines 5-20: include guard, MinGW calling-convention fix-up, the CUDA
\* headers, opening of the extern "C" block
Prologue ==
    << Ifndef("C_STUBS_H", 5),
       Def("C_STUBS_H", "", 6),
       Ifdef("__MINGW32__", 8),
       Inc("host_defines.h", 9),
       U("CUDARTAPI", 10),
       Def("CUDARTAPI", "__stdcall", 11),
       Endif(12),
       Inc("cuda.h", 14),
       Inc("cudaProfiler.h", 15),
       Inc("cuda_runtime_api.h", 16),
       Ifdef("__cplusplus", 18),
       ExternOpen(19),
       Endif(20) >>

UI == "unsigned int"

\* mutation: a wrapper that reports nothing
cudaConfigureCallSimpleVoid ==
    D("void", "", "cudaConfigureCallSimple",
      <<"int", "int", "int", "int", "int", "size_t", "cudaStream_t">>, 22)

\* lines 22-29
cudaConfigureCallSimple ==
    D("cudaError_t", "", "cudaConfigureCallSimple",
      <<"int", "int", "int", "int", "int", "size_t", "cudaStream_t">>, 22)

\* lines 22-98: the simplified wrappers
Wrappers ==
    << cudaConfigureCallSimple,
       D("CUresult", "", "cuTexRefSetAddress2DSimple",
         <<"CUtexref", "CUarray_format", UI, "CUdeviceptr",
           "size_t", "size_t", "size_t">>, 31),
       D("CUresult", "", "cuMemcpy2DHtoD",
         <<"CUdeviceptr", UI, UI, UI, "void*", UI, UI, UI, UI, UI>>, 43),
       D("CUresult", "", "cuMemcpy2DHtoDAsync",
         <<"CUdeviceptr", UI, UI, UI, "void*", UI, UI, UI, UI, UI,
           "CUstream">>, 52),
       D("CUresult", "", "cuMemcpy2DDtoH",
         <<"void*", UI, UI, UI, "CUdeviceptr", UI, UI, UI, UI, UI>>, 62),
       D("CUresult", "", "cuMemcpy2DDtoHAsync",
         <<"void*", UI, UI, UI, "CUdeviceptr", UI, UI, UI, UI, UI,
           "CUstream">>, 71),
       D("CUresult", "", "cuMemcpy2DDtoD",
         <<"CUdeviceptr", UI, UI, UI, "CUdeviceptr", UI, UI, UI, UI, UI>>, 81),
       D("CUresult", "", "cuMemcpy2DDtoDAsync",
         <<"CUdeviceptr", UI, UI, UI, "CUdeviceptr", UI, UI, UI, UI, UI,
           "CUstream">>, 90) >>

\* lines 106-147: the active #undef lines of the 3020 block (126, 132 and
\* 145 are commented out)
Undefs3020Base ==
    << U("cuDeviceTotalMem", 106),
       U("cuCtxCreate", 107),
       U("cuModuleGetGlobal", 108),
       U("cuMemGetInfo", 109),
       U("cuMemAlloc", 110),
       U("cuMemAllocPitch", 111),
       U("cuMemFree", 112),
       U("cuMemGetAddressRange", 113),
       U("cuMemAllocHost", 114),
       U("cuMemHostGetDevicePointer", 115),
       U("cuMemcpyHtoD", 116),
       U("cuMemcpyDtoH", 117),
       U("cuMemcpyDtoD", 118),
       U("cuMemcpyDtoA", 119),
       U("cuMemcpyAtoD", 120),
       U("cuMemcpyHtoA", 121),
       U("cuMemcpyAtoH", 122),
       U("cuMemcpyAtoA", 123),
       U("cuMemcpyHtoAAsync", 124),
       U("cuMemcpyAtoHAsync", 125),
       U("cuMemcpy2DUnaligned", 127),
       U("cuMemcpy3D", 128),
       U("cuMemcpyHtoDAsync", 129),
       U("cuMemcpyDtoHAsync", 130),
       U("cuMemcpyDtoDAsync", 131),
       U("cuMemcpy3DAsync", 133),
       U("cuMemsetD8", 134),
       U("cuMemsetD16", 135),
       U("cuMemsetD32", 136),
       U("cuMemsetD2D8", 137),
       U("cuMemsetD2D16", 138),
       U("cuMemsetD2D32", 139),
       U("cuArrayCreate", 140),
       U("cuArrayGetDescriptor", 141),
       U("cuArray3DCreate", 142),
       U("cuArray3DGetDescriptor", 143),
       U("cuTexRefSetAddress", 144),
       U("cuTexRefGetAddress", 146),
       U("cuGraphicsResourceGetMappedPointer", 147) >>

\* mutation: line 126 is not commented out
Undefs3020WithMemcpy2D == Undefs3020Base \o << U("cuMemcpy2D", 126) >>

Undefs3020 == Undefs3020Base

\* lines 149-190: the active declarations of the 3020 block
Decls3020 ==
    << D("CUresult", "CUDAAPI", "cuDeviceTotalMem", <<"size_t*", "CUdevice">>, 149),
       D("CUresult", "CUDAAPI", "cuCtxCreate", <<"CUcontext*", "unsigned int", "CUdevice">>, 150),
       D("CUresult", "CUDAAPI", "cuModuleGetGlobal", <<"CUdeviceptr*", "size_t*", "CUmodule", "const char*">>, 151),
       D("CUresult", "CUDAAPI", "cuMemGetInfo", <<"size_t*", "size_t*">>, 152),
       D("CUresult", "CUDAAPI", "cuMemAlloc", <<"CUdeviceptr*", "size_t">>, 153),
       D("CUresult", "CUDAAPI", "cuMemFree", <<"CUdeviceptr">>, 155),
       D("CUresult", "CUDAAPI", "cuMemGetAddressRange", <<"CUdeviceptr*", "size_t*", "CUdeviceptr">>, 156),
       D("CUresult", "CUDAAPI", "cuMemHostGetDevicePointer", <<"CUdeviceptr*", "void*", "unsigned int">>, 158),
       D("CUresult", "CUDAAPI", "cuMemcpyHtoD", <<"CUdeviceptr", "const void*", "size_t">>, 159),
       D("CUresult", "CUDAAPI", "cuMemcpyDtoH", <<"void*", "CUdeviceptr", "size_t">>, 160),
       D("CUresult", "CUDAAPI", "cuMemcpyDtoD", <<"CUdeviceptr", "CUdeviceptr", "size_t">>, 161),
       D("CUresult", "CUDAAPI", "cuMemcpyHtoDAsync", <<"CUdeviceptr", "const void*", "size_t", "CUstream">>, 172),
       D("CUresult", "CUDAAPI", "cuMemcpyDtoHAsync", <<"void*", "CUdeviceptr", "size_t", "CUstream">>, 173),
       D("CUresult", "CUDAAPI", "cuMemcpyDtoDAsync", <<"CUdeviceptr", "CUdeviceptr", "size_t", "CUstream">>, 174),
       D("CUresult", "CUDAAPI", "cuMemsetD8", <<"CUdeviceptr", "unsigned char", "size_t">>, 177),
       D("CUresult", "CUDAAPI", "cuMemsetD16", <<"CUdeviceptr", "unsigned short", "size_t">>, 178),
       D("CUresult", "CUDAAPI", "cuMemsetD32", <<"CUdeviceptr", "unsigned int", "size_t">>, 179),
       D("CUresult", "CUDAAPI", "cuTexRefSetAddress", <<"size_t*", "CUtexref", "CUdeviceptr", "size_t">>, 187) >>

Block3020 == << IfGe(T3020, 105) >> \o Undefs3020 \o Decls3020 \o << Endif(191) >>

Undefs4000 ==
    << U("cuCtxDestroy", 194),
       U("cuCtxPopCurrent", 195),
       U("cuCtxPushCurrent", 196),
       U("cuStreamDestroy", 197),
       U("cuEventDestroy", 198) >>

Decls4000Base ==
    << D("CUresult", "CUDAAPI", "cuCtxDestroy", <<"CUcontext">>, 200),
       D("CUresult", "CUDAAPI", "cuCtxPopCurrent", <<"CUcontext*">>, 201),
       D("CUresult", "CUDAAPI", "cuCtxPushCurrent", <<"CUcontext">>, 202),
       D("CUresult", "CUDAAPI", "cuStreamDestroy", <<"CUstream">>, 203),
       D("CUresult", "CUDAAPI", "cuEventDestroy", <<"CUevent">>, 204) >>

\* mutation: a declaration of the 3020 block pasted again
Decls4000Dup ==
    Decls4000Base \o << D("CUresult", "CUDAAPI", "cuMemFree", <<"CUdeviceptr">>, 204) >>

Decls4000 == Decls4000Base

Block4000 == << IfGe(T4000, 193) >> \o Undefs4000 \o Decls4000 \o << Endif(205) >>

Undefs6050 ==
    << U("cuMemHostRegister", 208),
       U("cuLinkCreate", 209),
       U("cuLinkAddData", 210),
       U("cuLinkAddFile", 211) >>

Decls6050 ==
    << D("CUresult", "CUDAAPI", "cuMemHostRegister", <<"void*", "size_t", "unsigned int">>, 213),
       D("CUresult", "CUDAAPI", "cuLinkCreate", <<"unsigned int", "CUjit_option*", "void**", "CUlinkState*">>, 214),
       D("CUresult", "CUDAAPI", "cuLinkAddData", <<"CUlinkState", "CUjitInputType", "void*", "size_t", "const char*", "unsigned int", "CUjit_option*", "void**">>, 215),
       D("CUresult", "CUDAAPI", "cuLinkAddFile", <<"CUlinkState", "CUjitInputType", "const char*", "unsigned int", "CUjit_option*", "void**">>, 216) >>

Block6050 == << IfGe(T6050, 207) >> \o Undefs6050 \o Decls6050 \o << Endif(217) >>

\* lines 219-222: closing of the extern "C" block and of the include guard
Epilogue ==
    << Ifdef("__cplusplus", 219),
       ExternClose(220),
       Endif(221),
       Endif(222) >>

\* mutation: the wrappers moved under the first version gate
HeaderWrappersGated ==
    Prologue \o << IfGe(T3020, 105) >> \o Wrappers \o Undefs3020 \o Decls3020
      \o << Endif(191) >> \o Block4000 \o Block6050 \o Epilogue

Header == Prologue \o Wrappers \o Block3020 \o Block4000 \o Block6050 \o Epilogue

(* ---------------------------------------------------------------------- *)
(* The vendor headers the stub includes                                   *)
(* ---------------------------------------------------------------------- *)

\* entry points cuda.h turns into macros for their _v2 symbols, per release
Aliased3020 ==
    { 
      "cuDeviceTotalMem", "cuCtxCreate", "cuModuleGetGlobal",
      "cuMemGetInfo", "cuMemAlloc", "cuMemAllocPitch", "cuMemFree",
      "cuMemGetAddressRange", "cuMemAllocHost", "cuMemHostGetDevicePointer",
      "cuMemcpyHtoD", "cuMemcpyDtoH", "cuMemcpyDtoD", "cuMemcpyDtoA",
      "cuMemcpyAtoD", "cuMemcpyHtoA", "cuMemcpyAtoH", "cuMemcpyAtoA",
      "cuMemcpyHtoAAsync", "cuMemcpyAtoHAsync", "cuMemcpy2D",
      "cuMemcpy2DUnaligned", "cuMemcpy3D", "cuMemcpyHtoDAsync",
      "cuMemcpyDtoHAsync", "cuMemcpyDtoDAsync", "cuMemcpy2DAsync",
      "cuMemcpy3DAsync", "cuMemsetD8", "cuMemsetD16", "cuMemsetD32",
      "cuMemsetD2D8", "cuMemsetD2D16", "cuMemsetD2D32", "cuArrayCreate",
      "cuArrayGetDescriptor", "cuArray3DCreate", "cuArray3DGetDescriptor",
      "cuTexRefSetAddress", "cuTexRefSetAddress2D", "cuTexRefGetAddress",
      "cuGraphicsResourceGetMappedPointer" }
Aliased4000 ==
    { "cuCtxDestroy", "cuCtxPopCurrent", "cuCtxPushCurrent", "cuStreamDestroy",
      "cuEventDestroy" }
Aliased6050 ==
    { "cuMemHostRegister", "cuLinkCreate", "cuLinkAddData", "cuLinkAddFile" }

VendorAliases(v) ==
    (IF v >= T3020 THEN Aliased3020 ELSE {})
      \cup (IF v >= T4000 THEN Aliased4000 ELSE {})
      \cup (IF v >= T6050 THEN Aliased6050 ELSE {})

Versioned(name) == name \o "_v2"

\* host_defines.h: __stdcall only under MSVC, empty under any gcc
HostCUDARTAPI(p) == IF p = "msvc" THEN "__stdcall" ELSE ""

\* cuda.h: __stdcall wherever _WIN32 is defined
VendorCUDAAPI(p) == IF p \in {"mingw", "msvc"} THEN "__stdcall" ELSE ""

(* ---------------------------------------------------------------------- *)
(* Preprocessor state                                                     *)
(* ---------------------------------------------------------------------- *)

VARIABLES
    platform,      \* the compiler
    cplusplus,     \* whether the translation unit is C++
    sdkVersion,    \* the CUDA_VERSION the installed cuda.h defines
    pc,            \* index of the next line of Header; 0 outside the header
    inclusions,    \* inclusions of stubs.h begun so far
    conds,         \* stack of open #if/#ifdef/#ifndef groups
    macros,        \* macro table: name -> replacement text
    CUDA_VERSION,  \* value of the macro CUDA_VERSION, 0 while undefined
    decls,         \* function declarations the header has contributed
    undone,        \* (name, gate) of every #undef line that was processed
    stubDefined,   \* names the header's own #define lines defined
    vendorDefs,    \* (name, text) of every macro a vendor header defined
    externDepth,   \* extern "C" blocks open
    externOpens,   \* extern "C" blocks opened so far
    rtapi,         \* CUDARTAPI at each #include <cuda_runtime_api.h>
    first          \* macros and decls as the first inclusion left them

vars == << platform, cplusplus, sdkVersion, pc, inclusions, conds, macros,
           CUDA_VERSION, decls, undone, stubDefined, vendorDefs, externDepth,
           externOpens, rtapi, first >>

NoMacros == [n \in {} |-> ""]

Defined(m, name) == name \in DOMAIN m

Define(m, name, val) == (name :> val) @@ m

\* mutation: #undef that leaves the macro in place
UndefKeeps(m, name) == m

Undef(m, name) == [n \in DOMAIN m \ {name} |-> m[n]]

\* an identifier in program text is replaced when it names a macro
Expand(m, name) == IF name \in DOMAIN m THEN m[name] ELSE name

\* mutation: strict comparison
GateOpenStrict(v, t) == v > t

\* #if CUDA_VERSION >= t
GateOpen(v, t) == v >= t

Active == \A i \in 1..Len(conds) : conds[i].active

RECURSIVE MaxGate(_)
MaxGate(s) ==
    IF s = <<>> THEN 0
    ELSE LET r == MaxGate(Tail(s)) IN IF Head(s).gate > r THEN Head(s).gate ELSE r

\* threshold of the version gate the current line is under, 0 if none
Gate == MaxGate(conds)

InHeader == pc \in 1..Len(Header)
Cur == Header[pc]
CondOps == {"ifndef", "ifdef", "if_ge"}

PredefinedMacros(p, cpp) ==
    LET a == IF p = "mingw" THEN ("__MINGW32__" :> "1") ELSE NoMacros
        b == IF cpp THEN ("__cplusplus" :> "199711L") ELSE NoMacros
    IN  a @@ b

Init ==
    /\ platform \in Platforms
    /\ cplusplus \in BOOLEAN
    /\ sdkVersion \in SdkVersions
    /\ pc = 0
    /\ inclusions = 0
    /\ conds = <<>>
    /\ macros = PredefinedMacros(platform, cplusplus)
    /\ CUDA_VERSION = 0
    /\ decls = <<>>
    /\ undone = {}
    /\ stubDefined = {}
    /\ vendorDefs = {}
    /\ externDepth = 0
    /\ externOpens = 0
    /\ rtapi = <<>>
    /\ first = [taken |-> FALSE, macros |-> NoMacros, decls |-> <<>>,
                undone |-> {}]

Env == << platform, cplusplus, sdkVersion >>

\* #include "stubs.h"
BeginInclude ==
    /\ pc = 0
    /\ inclusions < MaxIncludes
    /\ pc' = 1
    /\ inclusions' = inclusions + 1
    /\ UNCHANGED << Env, conds, macros, CUDA_VERSION, decls, undone,
                    stubDefined, vendorDefs, externDepth, externOpens, rtapi,
                    first >>

\* end of file reached
EndInclude ==
    /\ pc = Len(Header) + 1
    /\ pc' = 0
    /\ first' = IF first.taken THEN first
                ELSE [taken |-> TRUE, macros |-> macros, decls |-> decls,
                      undone |-> undone]
    /\ UNCHANGED << Env, inclusions, conds, macros, CUDA_VERSION, decls,
                    undone, stubDefined, vendorDefs, externDepth, externOpens,
                    rtapi >>

Push(active, gate) == Append(conds, [active |-> active, gate |-> gate])

StepIfndef ==
    /\ InHeader /\ Active /\ Cur.op = "ifndef"
    /\ conds' = Push(~Defined(macros, Cur.name), 0)
    /\ pc' = pc + 1
    /\ UNCHANGED << Env, inclusions, macros, CUDA_VERSION, decls, undone,
                    stubDefined, vendorDefs, externDepth, externOpens, rtapi,
                    first >>

StepIfdef ==
    /\ InHeader /\ Active /\ Cur.op = "ifdef"
    /\ conds' = Push(Defined(macros, Cur.name), 0)
    /\ pc' = pc + 1
    /\ UNCHANGED << Env, inclusions, macros, CUDA_VERSION, decls, undone,
                    stubDefined, vendorDefs, externDepth, externOpens, rtapi,
                    first >>

StepIfGe ==
    /\ InHeader /\ Active /\ Cur.op = "if_ge"
    /\ conds' = Push(GateOpen(CUDA_VERSION, Cur.n), Cur.n)
    /\ pc' = pc + 1
    /\ UNCHANGED << Env, inclusions, macros, CUDA_VERSION, decls, undone,
                    stubDefined, vendorDefs, externDepth, externOpens, rtapi,
                    first >>

\* a line inside a group that is being skipped
StepSkip ==
    /\ InHeader /\ ~Active /\ Cur.op # "endif"
    /\ conds' = IF Cur.op \in CondOps THEN Push(FALSE, 0) ELSE conds
    /\ pc' = pc + 1
    /\ UNCHANGED << Env, inclusions, macros, CUDA_VERSION, decls, undone,
                    stubDefined, vendorDefs, externDepth, externOpens, rtapi,
                    first >>

StepEndif ==
    /\ InHeader /\ Cur.op = "endif"
    /\ conds # <<>>
    /\ conds' = SubSeq(conds, 1, Len(conds) - 1)
    /\ pc' = pc + 1
    /\ UNCHANGED << Env, inclusions, macros, CUDA_VERSION, decls, undone,
                    stubDefined, vendorDefs, externDepth, externOpens, rtapi,
                    first >>

StepDefine ==
    /\ InHeader /\ Active /\ Cur.op = "define"
    /\ macros' = Define(macros, Cur.name, Cur.val)
    /\ stubDefined' = stubDefined \cup {Cur.name}
    /\ pc' = pc + 1
    /\ UNCHANGED << Env, inclusions, conds, CUDA_VERSION, decls, undone,
                    vendorDefs, externDepth, externOpens, rtapi, first >>

StepUndef ==
    /\ InHeader /\ Active /\ Cur.op = "undef"
    /\ macros' = Undef(macros, Cur.name)
    /\ undone' = undone \cup {<< Cur.name, Gate >>}
    /\ pc' = pc + 1
    /\ UNCHANGED << Env, inclusions, conds, CUDA_VERSION, decls, stubDefined,
                    vendorDefs, externDepth, externOpens, rtapi, first >>

\* what a vendor header defines when it is read in table m (each has its
\* own include guard, so a second read defines nothing)
VendorDefines(h, m, p, v) ==
    LET hd == IF Defined(m, "__HOST_DEFINES_H__") THEN {}
              ELSE { << "__HOST_DEFINES_H__", "" >>,
                     << "CUDARTAPI", HostCUDARTAPI(p) >> }
        cu == IF Defined(m, "__cuda_cuda_h__") THEN {}
              ELSE { << "__cuda_cuda_h__", "" >>,
                     << "CUDAAPI", VendorCUDAAPI(p) >> }
                   \cup { << a, Versioned(a) >> : a \in VendorAliases(v) }
    IN  CASE h = "host_defines.h"     -> hd
          [] h = "cuda.h"             -> cu
          [] h = "cudaProfiler.h"     -> cu
          [] h = "cuda_runtime_api.h" -> hd
          [] OTHER                    -> {}

Names(ps) == { q[1] : q \in ps }

Installed(m, ps) ==
    [n \in DOMAIN m \cup Names(ps) |->
        IF n \in Names(ps) THEN (CHOOSE q \in ps : q[1] = n)[2] ELSE m[n]]

StepInclude ==
    /\ InHeader /\ Active /\ Cur.op = "include"
    /\ LET ps == VendorDefines(Cur.name, macros, platform, sdkVersion)
       IN  /\ macros' = Installed(macros, ps)
           /\ vendorDefs' = vendorDefs \cup ps
    /\ CUDA_VERSION' = IF Cur.name \in {"cuda.h", "cudaProfiler.h"}
                       THEN sdkVersion ELSE CUDA_VERSION
    /\ rtapi' = IF Cur.name = "cuda_runtime_api.h"
                THEN Append(rtapi, Expand(macros', "CUDARTAPI"))
                ELSE rtapi
    /\ pc' = pc + 1
    /\ UNCHANGED << Env, inclusions, conds, decls, undone, stubDefined,
                    externDepth, externOpens, first >>

StepDecl ==
    /\ InHeader /\ Active /\ Cur.op = "decl"
    /\ decls' = Append(decls,
                  [name |-> Cur.name, symbol |-> Expand(macros, Cur.name),
                   ret |-> Cur.ret, cc |-> Expand(macros, Cur.cc),
                   params |-> Cur.params, gate |-> Gate, line |-> Cur.line])
    /\ pc' = pc + 1
    /\ UNCHANGED << Env, inclusions, conds, macros, CUDA_VERSION, undone,
                    stubDefined, vendorDefs, externDepth, externOpens, rtapi,
                    first >>

StepExternOpen ==
    /\ InHeader /\ Active /\ Cur.op = "extern_open"
    /\ externDepth' = externDepth + 1
    /\ externOpens' = externOpens + 1
    /\ pc' = pc + 1
    /\ UNCHANGED << Env, inclusions, conds, macros, CUDA_VERSION, decls,
                    undone, stubDefined, vendorDefs, rtapi, first >>

StepExternClose ==
    /\ InHeader /\ Active /\ Cur.op = "extern_close"
    /\ externDepth' = externDepth - 1
    /\ pc' = pc + 1
    /\ UNCHANGED << Env, inclusions, conds, macros, CUDA_VERSION, decls,
                    undone, stubDefined, vendorDefs, externOpens, rtapi,
                    first >>

Next ==
    \/ BeginInclude
    \/ EndInclude
    \/ StepIfndef
    \/ StepIfdef
    \/ StepIfGe
    \/ StepSkip
    \/ StepEndif
    \/ StepDefine
    \/ StepUndef
    \/ StepInclude
    \/ StepDecl
    \/ StepExternOpen
    \/ StepExternClose

Spec == Init /\ [][Next]_vars

(* ---------------------------------------------------------------------- *)
(* Properties                                                             *)
(* ---------------------------------------------------------------------- *)

\* the translation unit is past at least one inclusion of the header
Done == pc = 0 /\ inclusions >= 1

DeclIdx == 1..Len(decls)
UndoneNames == { u[1] : u \in undone }
UndoneAt(t) == { u[1] : u \in { w \in undone : w[2] = t } }
DeclaredAt(t) == { decls[i].name : i \in { j \in DeclIdx : decls[j].gate = t } }

OpNames(s, op) == { s[i].name : i \in { j \in 1..Len(s) : s[j].op = op } }
BlockFor(t) ==
    CASE t = T3020 -> Block3020
      [] t = T4000 -> Block4000
      [] t = T6050 -> Block6050
OpenAt(v) == { t \in Thresholds : t <= v }

\* C2: at every CUDA_VERSION no function name is declared twice by the
\* header, neither as written nor as the symbol it binds
C2_NoRedefinition ==
    \A i, j \in DeclIdx :
        i # j => /\ decls[i].name # decls[j].name
                 /\ decls[i].symbol # decls[j].symbol

C2_Witness ==
    /\ Done /\ CUDA_VERSION >= T6050
    /\ \A t \in Thresholds \cup {0} : \E i \in DeclIdx : decls[i].gate = t

\* C3 (as claimed): in each version block the names removed by #undef are
\* exactly the names the block declares
C3_UndefEqualsRedeclared ==
    Done => \A t \in Thresholds : UndoneAt(t) = DeclaredAt(t)

\* C4: after the header the #undefs and declarations in effect are exactly
\* those of the blocks whose threshold is <= CUDA_VERSION, and contain those
\* of every lower version
C4_CumulativeGating ==
    Done =>
      /\ \A t \in Thresholds :
           /\ UndoneAt(t) = IF t <= CUDA_VERSION
                            THEN OpNames(BlockFor(t), "undef") ELSE {}
           /\ DeclaredAt(t) = IF t <= CUDA_VERSION
                              THEN OpNames(BlockFor(t), "decl") ELSE {}
      /\ \A w \in SdkVersions :
           w <= CUDA_VERSION =>
             \A t \in OpenAt(w) :
                /\ OpNames(BlockFor(t), "undef") \subseteq UndoneAt(t)
                /\ OpNames(BlockFor(t), "decl") \subseteq DeclaredAt(t)

C4_Witness ==
    /\ Done /\ CUDA_VERSION >= T4000 /\ CUDA_VERSION < T6050
    /\ UndoneAt(T3020) # {} /\ UndoneAt(T4000) # {} /\ UndoneAt(T6050) = {}

\* C5: every declaration of the header returns CUresult or cudaError_t
C5_ReturnsStatus ==
    \A i \in DeclIdx : decls[i].ret \in {"CUresult", "cudaError_t"}

C5_Witness ==
    /\ Done
    /\ \E i, j \in DeclIdx : decls[i].ret = "CUresult" /\ decls[j].ret = "cudaError_t"
    /\ \E i \in DeclIdx : decls[i].gate = T6050

\* C6: a re-declared entry point is not a macro when it is declared, so the
\* declaration binds the unversioned symbol, and the name stays unaliased
\* from then on
C6_BindsUnversioned ==
    \A i \in DeclIdx :
        decls[i].gate > 0 =>
          /\ decls[i].symbol = decls[i].name
          /\ << decls[i].name, decls[i].gate >> \in undone
          /\ Expand(macros, decls[i].name) = decls[i].name

C6_Witness ==
    /\ Done
    /\ << "cuMemAlloc", "cuMemAlloc_v2" >> \in vendorDefs
    /\ \E i \in DeclIdx : decls[i].name = "cuMemAlloc" /\ decls[i].symbol = "cuMemAlloc"

WrapperNames ==
    { "cudaConfigureCallSimple", "cuTexRefSetAddress2DSimple", "cuMemcpy2DHtoD",
      "cuMemcpy2DHtoDAsync", "cuMemcpy2DDtoH", "cuMemcpy2DDtoHAsync",
      "cuMemcpy2DDtoD", "cuMemcpy2DDtoDAsync" }

\* the signature written at lines 22-98 for wrapper w
Written(w) == Wrappers[CHOOSE k \in 1..Len(Wrappers) : Wrappers[k].name = w]

\* C7: whatever CUDA_VERSION is, each simplified wrapper is declared, outside
\* any version gate, under its own name and with the signature as written
C7_WrappersUngated ==
    Done =>
      \A w \in WrapperNames :
         \E i \in DeclIdx :
            /\ decls[i].name = w /\ decls[i].symbol = w /\ decls[i].gate = 0
            /\ decls[i].ret = Written(w).ret
            /\ decls[i].cc = Written(w).cc
            /\ decls[i].params = Written(w).params

C7_Witness ==
    /\ Done /\ CUDA_VERSION > 0 /\ CUDA_VERSION < T3020
    /\ { decls[i].name : i \in DeclIdx } = WrapperNames

\* C8: under MinGW the runtime API header is read with CUDARTAPI = __stdcall,
\* host_defines.h having been read and CUDARTAPI redefined before; elsewhere
\* the header neither undefines nor defines CUDARTAPI
C8_MingwStdcall ==
    /\ platform = "mingw" =>
         \A k \in 1..Len(rtapi) :
            /\ rtapi[k] = "__stdcall"
            /\ << "CUDARTAPI", HostCUDARTAPI(platform) >> \in vendorDefs
            /\ "CUDARTAPI" \in stubDefined /\ "CUDARTAPI" \in UndoneNames
    /\ platform # "mingw" =>
         /\ "CUDARTAPI" \notin stubDefined /\ "CUDARTAPI" \notin UndoneNames
         /\ \A k \in 1..Len(rtapi) : rtapi[k] = HostCUDARTAPI(platform)

C8_Witness == Done /\ platform = "mingw" /\ Len(rtapi) = 1 /\ rtapi[1] = "__stdcall"

StillAliased == { "cuMemcpy2D", "cuMemcpy2DAsync", "cuTexRefSetAddress2D" }

\* C9: a vendor macro the header has no active #undef for keeps its
\* replacement; cuMemcpy2D, cuMemcpy2DAsync and cuTexRefSetAddress2D still
\* name their _v2 symbols once cuda.h of a release >= 3020 has been read
C9_OnlyListedRemoved ==
    /\ \A p \in vendorDefs :
          p[1] \notin UndoneNames => Defined(macros, p[1]) /\ macros[p[1]] = p[2]
    /\ CUDA_VERSION >= T3020 =>
          \A n \in StillAliased : Expand(macros, n) = Versioned(n)

C9_Witness ==
    /\ Done /\ CUDA_VERSION >= T3020
    /\ Expand(macros, "cuMemcpy2D") = "cuMemcpy2D_v2"
    /\ "cuMemcpy2DUnaligned" \in UndoneNames
    /\ ~Defined(macros, "cuMemcpy2DUnaligned")

\* C10: a later inclusion leaves the macro table, the declarations and the
\* processed #undefs as the first inclusion left them; extern "C" is opened
\* only under __cplusplus and is closed whenever the header has been read
C10_Idempotent ==
    /\ (Done /\ first.taken) =>
          /\ macros = first.macros
          /\ decls = first.decls
          /\ undone = first.undone
    /\ Done => externDepth = 0 /\ conds = <<>>
    /\ Done => externOpens = IF cplusplus THEN 1 ELSE 0
    /\ externDepth > 0 => cplusplus

C10_Witness ==
    /\ Done /\ inclusions >= 2 /\ first.taken /\ cplusplus
    /\ Defined(macros, "C_STUBS_H") /\ Len(decls) > 0

====
